---- MODULE Spec2Model ----
(***************************************************************************)
(* Model of the doc-comment procedural macros (src/src/lib.rs):            *)
(* include_file, parse_macro_call, parse_attr, parse_item,                 *)
(* check_if_is_inner, doc_comment and doctest.                             *)
(*                                                                         *)
(* A text (Rust String / &str) is a sequence of characters.  A word        *)
(* (identifier, keyword) that the code never looks inside is kept as one   *)
(* element of the sequence; quotes, backslashes, punctuation, delimiters   *)
(* and blanks are always single elements.                                  *)
(*                                                                         *)
(* A token tree is a record:                                               *)
(*   [k |-> "lit",   print |-> text]          Literal, print = to_string() *)
(*   [k |-> "ident", name |-> text, span |-> "real" | "dummy"]             *)
(*   [k |-> "punct", ch |-> char, joint |-> BOOLEAN]                       *)
(*   [k |-> "group", delim |-> "paren"|"brace"|"bracket"|"none",           *)
(*                   stream |-> sequence of token trees]                   *)
(***************************************************************************)
EXTENDS Integers, Sequences, FiniteSets, TLC

VARIABLES op, pc, attrs, item, is_inner, path, fs, parts, file_path, test_name, ret

vars == <<op, pc, attrs, item, is_inner, path, fs, parts, file_path, test_name, ret>>

----------------------------------------------------------------------------
(* Characters *)

DQ == "\""

BS == "\\"

SQ == "'"

SP == " "

NL == "\n"

(* Token constructors *)

Lit(print) == [k |-> "lit", print |-> print]

Ident(name) == [k |-> "ident", name |-> <<name>>, span |-> "real"]

DummyIdent(name) == [k |-> "ident", name |-> name, span |-> "dummy"]

Punct(ch) == [k |-> "punct", ch |-> ch, joint |-> FALSE]

JointPunct(ch) == [k |-> "punct", ch |-> ch, joint |-> TRUE]

Group(delim, stream) == [k |-> "group", delim |-> delim, stream |-> stream]

(* str::starts_with for a one-character pattern *)
StartsWith(s, c) == Len(s) > 0 /\ s[1] = c

(* str::ends_with for a one-character pattern *)
EndsWith(s, c) == Len(s) > 0 /\ s[Len(s)] = c

(* the slice &s[from .. s.len() - 1], from counted from 0 as in the source *)
Inner(s, from) == SubSeq(s, from + 1, Len(s) - 1)

----------------------------------------------------------------------------
(* What a function returns: ok = FALSE is a panic (the expansion aborts,    *)
(* nothing is returned).  includes is the `includes` buffer after the call, *)
(* reads the files handed to fs::read_to_string, in order.                  *)

Ret(out, includes, reads) == [ok |-> TRUE, out |-> out, includes |-> includes, reads |-> reads]

Abort == [ok |-> FALSE, out |-> <<>>, includes |-> <<>>, reads |-> <<>>]

(* Path::is_absolute *)
is_absolute(p) == StartsWith(p, "/")

(* Path::new(file!()).parent(): this file is src/lib.rs *)
SrcDir == <<"src", "/">>

full_path(p) == IF ~is_absolute(p) THEN SrcDir \o p ELSE p

(* format!("const _: &'static str = {}!(\"{}\");", ident, path.display()) *)
IncludeDecl(ident, p) ==
  <<"const", SP, "_", ":", SP, "&", SQ, "static", SP, "str", SP, "=", SP>>
    \o ident \o <<"!", "(", DQ>> \o p \o <<DQ, ")", ";">>

(* str::replace(c, rep) for a one-character pattern c *)
RECURSIVE Replace(_, _, _)
Replace(s, c, rep) ==
  IF s = <<>> THEN <<>>
  ELSE (IF Head(s) = c THEN rep ELSE <<Head(s)>>) \o Replace(Tail(s), c, rep)

(* s.replace("\\", "\\\\").replace("\"", "\\\"") *)
EscapeWrongOrder(s) == Replace(Replace(s, DQ, <<BS, DQ>>), BS, <<BS, BS>>)

Escape(s) == Replace(Replace(s, BS, <<BS, BS>>), DQ, <<BS, DQ>>)

(* what include_file returns once fs::read_to_string(&full_path) answered *)
include_file_read(p, includes, reads, files, full) ==
  IF full \in DOMAIN files THEN Ret(Escape(files[full]), includes, Append(reads, p)) ELSE Abort

(* include_file without the declaration pushed to `includes` *)
include_file_no_decl(ident, p, includes, reads, files) ==
  include_file_read(p, includes, reads, files, full_path(p))

(* fn include_file(ident, path, includes) -> String; files is the file system *)
include_file(ident, p, includes, reads, files) ==
  include_file_read(p, includes \o IncludeDecl(ident, p), reads, files, full_path(p))

----------------------------------------------------------------------------
(* the loop over g.stream() in parse_macro_call; st is Ret(out, includes, reads) *)
RECURSIVE MacroGroupLoop(_, _, _, _, _)
RECURSIVE MacroGroupPush(_, _, _, _, _, _)
MacroGroupLoop(ident, stream, j, st, files) ==
  IF j > Len(stream) THEN st
  ELSE IF stream[j].k = "lit" THEN
    IF ~StartsWith(stream[j].print, DQ) THEN Abort
    ELSE MacroGroupPush(ident, stream, j, st, files,
           include_file(ident, Inner(stream[j].print, 1), st.includes, st.reads, files))
  ELSE IF stream[j].k = "punct" /\ stream[j].ch = "," THEN
    MacroGroupLoop(ident, stream, j + 1, st, files)
  ELSE Abort

(* out.push_str(&include_file(..)), r being what include_file returned *)
MacroGroupPush(ident, stream, j, st, files, r) ==
  IF ~r.ok THEN Abort
  ELSE MacroGroupLoop(ident, stream, j + 1, Ret(st.out \o r.out, r.includes, r.reads), files)

(* lines 186-207 of parse_macro_call: the "!" is dropped, the group read *)
parse_macro_group(ident, ts, i, st, files) ==
  IF i + 1 > Len(ts) THEN Abort
  ELSE IF ts[i + 1].k = "group" THEN MacroGroupLoop(ident, ts[i + 1].stream, 1, st, files)
  ELSE Abort

(* parse_macro_call that accepts any macro name *)
parse_macro_call_any(ident, ts, i, st, files) == parse_macro_group(ident, ts, i, st, files)

(* fn parse_macro_call(ident, attrs, out, includes); ts[i] is the "!" that   *)
(* attrs.peek() saw; the call leaves the iterator at ts[i + 2].             *)
parse_macro_call(ident, ts, i, st, files) ==
  IF ident # <<"include_str">> THEN Abort
  ELSE parse_macro_group(ident, ts, i, st, files)

(* the text a literal adds to the doc string (lines 219-230) *)
LitText(print) ==
  IF StartsWith(print, "b") THEN Inner(print, 2)
  ELSE IF StartsWith(print, SQ) THEN Inner(print, 1)
  ELSE IF StartsWith(print, DQ) THEN Inner(print, 1)
  ELSE print

(* a.to_string() == "!" *)
IsBang(t) == t.k = "punct" /\ t.ch = "!"

(* the loop of parse_attr; st is Ret(out, includes, reads) *)
RECURSIVE ParseAttrLoop(_, _, _, _)
RECURSIVE ParseAttrAfterMacro(_, _, _, _)
ParseAttrLoop(ts, i, st, files) ==
  IF i > Len(ts) THEN st
  ELSE IF ts[i].k = "lit" THEN
    ParseAttrLoop(ts, i + 1, Ret(st.out \o LitText(ts[i].print), st.includes, st.reads), files)
  ELSE IF ts[i].k = "punct" /\ ts[i].ch = "," THEN
    ParseAttrLoop(ts, i + 1, st, files)
  ELSE IF ts[i].k = "ident" /\ i + 1 <= Len(ts) /\ IsBang(ts[i + 1]) THEN
    ParseAttrAfterMacro(ts, i + 3, parse_macro_call(ts[i].name, ts, i + 1, st, files), files)
  ELSE Abort

(* the loop goes on after parse_macro_call returned r *)
ParseAttrAfterMacro(ts, next, r, files) ==
  IF ~r.ok THEN Abort ELSE ParseAttrLoop(ts, next, r, files)

(* format!("#{}[doc = \"", if is_inner { "!" } else { "" }) *)
AttrOpen(inner) ==
  <<"#">> \o (IF inner THEN <<"!">> ELSE <<>>) \o <<"[", "doc", SP, "=", SP, DQ>>

AttrClose == <<DQ, "]">>

(* out.push_str("\"]"); out *)
ParseAttrClose(r) == IF ~r.ok THEN Abort ELSE Ret(r.out \o AttrClose, r.includes, r.reads)

(* fn parse_attr(attrs, includes, is_inner) -> String *)
parse_attr(ts, includes, reads, inner, files) ==
  ParseAttrClose(ParseAttrLoop(ts, 1, Ret(AttrOpen(inner), includes, reads), files))

----------------------------------------------------------------------------
OpenText(delim) ==
  CASE delim = "paren" -> <<SP, "(">>
    [] delim = "brace" -> <<SP, "{">>
    [] delim = "bracket" -> <<SP, "[">>
    [] delim = "none" -> <<SP>>

CloseText(delim) ==
  CASE delim = "paren" -> <<")">>
    [] delim = "brace" -> <<"}">>
    [] delim = "bracket" -> <<"]">>
    [] delim = "none" -> <<>>

(* x.to_string() of a token that is not a group *)
TokText(x) ==
  CASE x.k = "lit" -> x.print
    [] x.k = "ident" -> x.name
    [] x.k = "punct" -> <<x.ch>>

(* Some(TokenTree::Ident(i)) if i.to_string() == "doc_comment" (line 272) *)
IsDocCommentIdent(stream) ==
  Len(stream) >= 1 /\ stream[1].k = "ident" /\ stream[1].name = <<"doc_comment">>

(* lines 271-277 pushing "#" only for doc_comment *)
HashIfDocComment(stream) == IF IsDocCommentIdent(stream) THEN <<SP, "#">> ELSE <<>>

(* lines 271-277: "#" is pushed unless the attribute starts with doc_comment *)
HashUnlessDocComment(stream) == IF IsDocCommentIdent(stream) THEN <<>> ELSE <<SP, "#">>

(* the loop of parse_item; st is Ret(out, includes, reads) *)
RECURSIVE ParseItemLoop(_, _, _, _)
RECURSIVE ParseItemGroup(_, _, _, _, _)
RECURSIVE ParseItemAttr(_, _, _, _, _)
ParseItemLoop(ts, i, st, files) ==
  IF i > Len(ts) THEN st
  ELSE IF ts[i].k = "group" THEN
    ParseItemGroup(ts, i, st, files,
      ParseItemLoop(ts[i].stream, 1, Ret(<<>>, st.includes, st.reads), files))
  ELSE IF ts[i].k = "punct" /\ ts[i].ch = "#" THEN
    IF i + 1 <= Len(ts) /\ ts[i + 1].k = "group" /\ ts[i + 1].delim = "bracket" THEN
      IF Len(ts[i + 1].stream) >= 2 /\ ts[i + 1].stream[2].k = "group" THEN
        ParseItemAttr(ts, i, st, files,
          parse_attr(ts[i + 1].stream[2].stream, st.includes, st.reads, FALSE, files))
      ELSE ParseItemLoop(ts, i + 1,
             Ret(st.out \o HashUnlessDocComment(ts[i + 1].stream) \o <<SP, "#">>,
                 st.includes, st.reads), files)
    ELSE ParseItemLoop(ts, i + 1, Ret(st.out \o <<SP, "#">>, st.includes, st.reads), files)
  ELSE
    ParseItemLoop(ts, i + 1,
      Ret(st.out \o (IF ~EndsWith(st.out, "#") THEN <<SP>> ELSE <<>>) \o TokText(ts[i]),
          st.includes, st.reads), files)

(* lines 253-265: the group ts[i], sub being what the inner parse_item returned *)
ParseItemGroup(ts, i, st, files, sub) ==
  IF ~sub.ok THEN Abort
  ELSE ParseItemLoop(ts, i + 1,
         Ret(st.out \o OpenText(ts[i].delim) \o sub.out \o CloseText(ts[i].delim),
             sub.includes, sub.reads), files)

(* lines 279-283: a being what parse_attr returned; parts.next() skips the bracket group *)
ParseItemAttr(ts, i, st, files, a) ==
  IF ~a.ok THEN Abort
  ELSE ParseItemLoop(ts, i + 2,
         Ret(st.out \o HashUnlessDocComment(ts[i + 1].stream) \o <<SP>> \o a.out,
             a.includes, a.reads), files)

(* fn parse_item(parts, includes) -> String *)
parse_item(ts, includes, reads, files) == ParseItemLoop(ts, 1, Ret(<<>>, includes, reads), files)

----------------
(* TokenStream::from_str (lines 345-352, 359, 365, 441): the lexer the      *)
(* generated text goes through.  Its result is the token stream written     *)
(* flat: a group is an "open" token, its tokens, a "close" token.           *)

FLit(print) == [k |-> "lit", print |-> print]

FIdent(name) == [k |-> "ident", name |-> name]

FPunct(ch, joint) == [k |-> "punct", ch |-> ch, joint |-> joint]

FOpen(delim) == [k |-> "open", delim |-> delim]

FClose(delim) == [k |-> "close", delim |-> delim]

Spaces == {SP, NL}

Openers == {"(", "{", "["}

Closers == {")", "}", "]"}

PunctChars == {"#", "!", "=", ",", ":", "&", ";", "-", ">", "<", ".", "+", "*", "/", "|", "?", "@", "$"}

Digits == {"0", "1", "2", "3", "4", "5", "6", "7", "8", "9"}

IsWord(c) == c \notin Spaces \cup Openers \cup Closers \cup PunctChars \cup {DQ, SQ, BS}

DelimOf(c) ==
  CASE c \in {"(", ")"} -> "paren"
    [] c \in {"{", "}"} -> "brace"
    [] c \in {"[", "]"} -> "bracket"

(* index of the first character from j on that is not blank, Len(s) + 1 if none *)
RECURSIVE SkipSpaces(_, _)
SkipSpaces(s, j) == IF j <= Len(s) /\ s[j] \in Spaces THEN SkipSpaces(s, j + 1) ELSE j

(* index of the last character of the run of word characters that starts at j, j - 1 if none *)
RECURSIVE WordEnd(_, _)
WordEnd(s, j) == IF j <= Len(s) /\ IsWord(s[j]) THEN WordEnd(s, j + 1) ELSE j - 1

(* index of the quote that closes a string whose body starts at j; 0 if none *)
RECURSIVE ScanStr(_, _)
ScanStr(s, j) ==
  IF j > Len(s) THEN 0
  ELSE IF s[j] = BS THEN ScanStr(s, j + 2)
  ELSE IF s[j] = DQ THEN j
  ELSE ScanStr(s, j + 1)

(* number of # from j on *)
RECURSIVE CountHashes(_, _)
CountHashes(s, j) == IF j <= Len(s) /\ s[j] = "#" THEN 1 + CountHashes(s, j + 1) ELSE 0

(* index of the quote that closes a raw string with h hashes whose body starts at j; 0 if none *)
RECURSIVE ScanRaw(_, _, _)
ScanRaw(s, j, h) ==
  IF j > Len(s) THEN 0
  ELSE IF s[j] = DQ /\ j + h <= Len(s) /\ \A m \in 1..h : s[j + m] = "#" THEN j
  ELSE ScanRaw(s, j + 1, h)

(* a quoted literal that closes at q, with the suffix that follows it *)
WithSuffix(s, q) == IF q = 0 THEN 0 ELSE WordEnd(s, q + 1)

(* a raw string with h hashes that closes at q *)
RawClose(s, q, h) == IF q = 0 THEN 0 ELSE WordEnd(s, q + h + 1)

(* r or br at ..e, followed by h hashes: a raw string if a quote comes next *)
RawTokEnd(s, e, h) ==
  IF e + h + 1 <= Len(s) /\ s[e + h + 1] = DQ THEN RawClose(s, ScanRaw(s, e + h + 2, h), h)
  ELSE e

(* the token that starts with the word s[i..e] *)
WordTokEnd(s, i, e) ==
  IF SubSeq(s, i, e) \in {<<"r">>, <<"b", "r">>} THEN RawTokEnd(s, e, CountHashes(s, e + 1))
  ELSE IF SubSeq(s, i, e) = <<"b">> /\ e + 1 <= Len(s) /\ s[e + 1] = DQ THEN
    WithSuffix(s, ScanStr(s, e + 2))
  ELSE IF SubSeq(s, i, e) = <<"b">> /\ e + 3 <= Len(s) /\ s[e + 1] = SQ /\ s[e + 3] = SQ THEN
    e + 3
  ELSE e

(* index of the last character of the token that starts at i; 0 when no token does *)
TokEnd(s, i) ==
  IF s[i] \in Openers \cup Closers THEN i
  ELSE IF s[i] = DQ THEN WithSuffix(s, ScanStr(s, i + 1))
  ELSE IF s[i] = SQ THEN
    IF i + 3 <= Len(s) /\ s[i + 1] = BS /\ s[i + 3] = SQ THEN i + 3
    ELSE IF i + 2 <= Len(s) /\ s[i + 1] \notin {BS, SQ} /\ s[i + 2] = SQ THEN i + 2
    ELSE IF i + 1 <= Len(s) /\ IsWord(s[i + 1]) THEN i
    ELSE 0
  ELSE IF s[i] = BS THEN 0
  ELSE IF s[i] \in PunctChars THEN i
  ELSE WordTokEnd(s, i, WordEnd(s, i))

(* the token s[i..e]; we is where the word starting at i ends *)
TokAt(s, i, e, we) ==
  IF s[i] \in Openers THEN FOpen(DelimOf(s[i]))
  ELSE IF s[i] \in Closers THEN FClose(DelimOf(s[i]))
  ELSE IF s[i] = SQ /\ e = i THEN FPunct(SQ, TRUE)
  ELSE IF s[i] \in PunctChars THEN FPunct(s[i], i + 1 <= Len(s) /\ s[i + 1] \in PunctChars)
  ELSE IF s[i] \in {DQ, SQ} \cup Digits THEN FLit(SubSeq(s, i, e))
  ELSE IF e > we THEN FLit(SubSeq(s, i, e))
  ELSE FIdent(SubSeq(s, i, e))

(* the tokens of s from i on, as <<first, last>> index pairs; <<0, 0>> ends the *)
(* list where no token can start                                               *)
RECURSIVE TokSpans(_, _)
RECURSIVE TokSpansFrom(_, _)
RECURSIVE TokSpansTo(_, _, _)
TokSpans(s, i) == TokSpansFrom(s, SkipSpaces(s, i))

TokSpansFrom(s, j) == IF j > Len(s) THEN <<>> ELSE TokSpansTo(s, j, TokEnd(s, j))

TokSpansTo(s, j, e) == IF e = 0 THEN << <<0, 0>> >> ELSE << <<j, e>> >> \o TokSpans(s, e + 1)

LexFail == [ok |-> FALSE, toks |-> <<>>]

LexSpans(s, spans) ==
  IF \E n \in 1..Len(spans) : spans[n][1] = 0 THEN LexFail
  ELSE [ok |-> TRUE,
        toks |-> [n \in 1..Len(spans) |->
                    TokAt(s, spans[n][1], spans[n][2], WordEnd(s, spans[n][1]))]]

Lex(s) == LexSpans(s, TokSpans(s, 1))

(* every close token matches the last group still open, and none stays open; *)
(* stack holds the delimiters of the groups open before toks[i]               *)
RECURSIVE BalancedFrom(_, _, _)
BalancedFrom(toks, i, stack) ==
  IF i > Len(toks) THEN stack = <<>>
  ELSE IF toks[i].k = "open" THEN BalancedFrom(toks, i + 1, <<toks[i].delim>> \o stack)
  ELSE IF toks[i].k = "close" THEN
    stack # <<>> /\ Head(stack) = toks[i].delim /\ BalancedFrom(toks, i + 1, Tail(stack))
  ELSE BalancedFrom(toks, i + 1, stack)

Balanced(toks) == BalancedFrom(toks, 1, <<>>)

(* the token stream, unless a delimiter is left unmatched *)
CheckBalanced(r) == IF r.ok /\ Balanced(r.toks) THEN r ELSE LexFail

(* TokenStream::from_str(s): ok = FALSE is the Err that .unwrap() panics on *)
from_str(s) == CheckBalanced(Lex(s))

(* a token stream the macro received, written flat like the result of from_str *)
RECURSIVE Flatten(_)
Flatten(ts) ==
  IF ts = <<>> THEN <<>>
  ELSE LET t == Head(ts) IN
    (CASE t.k = "lit" -> <<FLit(t.print)>>
       [] t.k = "ident" -> <<FIdent(t.name)>>
       [] t.k = "punct" -> <<FPunct(t.ch, t.joint)>>
       [] t.k = "group" -> <<FOpen(t.delim)>> \o Flatten(t.stream) \o <<FClose(t.delim)>>)
    \o Flatten(Tail(ts))

----------------------------------------------------------------------------
(* what a macro returns: the token stream, flat; the strings it was built from *)
Expansion(toks, attr, body, includes, reads, inner) ==
  [ok |-> TRUE, toks |-> toks, attr |-> attr, body |-> body,
   includes |-> includes, reads |-> reads, inner |-> inner]

NoExpansion ==
  [ok |-> FALSE, toks |-> <<>>, attr |-> <<>>, body |-> <<>>,
   includes |-> <<>>, reads |-> <<>>, inner |-> FALSE]

(* check_if_is_inner never answers true *)
never_inner(ts) == FALSE

(* fn check_if_is_inner(item) -> bool *)
check_if_is_inner(ts) ==
  Len(ts) >= 1 /\ ts[1].k = "ident" /\ (ts[1].name = <<>> \/ ts[1].span = "dummy")

(* index of the first group of ts from i on, 0 if none (the loop of lines 355-371) *)
RECURSIVE FirstGroup(_, _)
FirstGroup(ts, i) ==
  IF i > Len(ts) THEN 0
  ELSE IF ts[i].k = "group" THEN i
  ELSE FirstGroup(ts, i + 1)

(* TokenStream::from_iter(attr.chain(body).chain(includes)) *)
Chain(attr, body, inc, includes, reads, inner) ==
  IF ~attr.ok \/ ~body.ok \/ ~inc.ok THEN NoExpansion
  ELSE Expansion(attr.toks \o body.toks \o inc.toks, attr.toks, body.toks, includes, reads, inner)

(* lines 349-353, p being what parse_item returned *)
DocOuter(a, p) ==
  IF ~p.ok THEN NoExpansion
  ELSE Chain(from_str(a.out), from_str(p.out), from_str(p.includes), p.includes, p.reads, FALSE)

(* lines 355-371, g being the index of the first group of the item, 0 if none *)
DocInner(a, it, g) ==
  Chain(from_str(a.out),
        [ok |-> TRUE, toks |-> IF g = 0 THEN <<>> ELSE Flatten(it[g].stream)],
        from_str(a.includes), a.includes, a.reads, TRUE)

(* lines 345-372, a being what parse_attr returned *)
DocWithAttr(a, it, inner, files) ==
  IF ~a.ok THEN NoExpansion
  ELSE IF ~inner THEN DocOuter(a, parse_item(it, a.includes, a.reads, files))
  ELSE DocInner(a, it, FirstGroup(it, 1))

(* lines 344-345, inner being what check_if_is_inner returned *)
DocWithInner(as, it, inner, files) ==
  DocWithAttr(parse_attr(as, <<>>, <<>>, inner, files), it, inner, files)

(* pub fn doc_comment(attrs, item) -> TokenStream *)
doc_comment(as, it, files) == DocWithInner(as, it, check_if_is_inner(it), files)

----------------
(* Option<String>: None is <<>>, Some(x) is <<x>> *)
None == <<>>

Some(x) == <<x>>

(* doctest that lets an identifier come first *)
doctest_scan_any_order(t, fp, tn) ==
  IF t.k = "lit" THEN
    IF ~StartsWith(t.print, DQ) THEN [ok |-> FALSE, fp |-> fp, tn |-> tn]
    ELSE IF fp # None THEN [ok |-> FALSE, fp |-> fp, tn |-> tn]
    ELSE [ok |-> TRUE, fp |-> Some(Inner(t.print, 1)), tn |-> tn]
  ELSE IF t.k = "punct" /\ t.ch = "," THEN [ok |-> TRUE, fp |-> fp, tn |-> tn]
  ELSE IF t.k = "ident" THEN [ok |-> TRUE, fp |-> fp, tn |-> Some(t.name)]
  ELSE [ok |-> FALSE, fp |-> fp, tn |-> tn]

(* one turn of the loop of doctest (lines 396-425) on the token t *)
doctest_scan(t, fp, tn) ==
  IF t.k = "lit" THEN
    IF ~StartsWith(t.print, DQ) THEN [ok |-> FALSE, fp |-> fp, tn |-> tn]
    ELSE IF fp # None THEN [ok |-> FALSE, fp |-> fp, tn |-> tn]
    ELSE [ok |-> TRUE, fp |-> Some(Inner(t.print, 1)), tn |-> tn]
  ELSE IF t.k = "punct" /\ t.ch = "," THEN [ok |-> TRUE, fp |-> fp, tn |-> tn]
  ELSE IF t.k = "ident" THEN
    IF fp = None THEN [ok |-> FALSE, fp |-> fp, tn |-> tn]
    ELSE [ok |-> TRUE, fp |-> fp, tn |-> Some(t.name)]
  ELSE [ok |-> FALSE, fp |-> fp, tn |-> tn]

(* lines 427-429: the parameters pass unless both are missing *)
doctest_has_params(fp, tn) == ~(fp = None /\ tn = None)

(* the item of doctest without the name of the test *)
DoctestItemUnnamed(tn) == <<"extern", SP, "{", "}">>

(* "mod {} {{}}" or "extern {}" (lines 436-439) *)
DoctestItem(tn) ==
  IF tn # None THEN <<"mod", SP>> \o tn[1] \o <<SP, "{", "}">> ELSE <<"extern", SP, "{", "}">>

(* format!("#[doc = \"{}\"]\n{}\n{}", content, item, includes).parse().unwrap() *)
DoctestFormat(attr, it, r) ==
  Chain(CheckBalanced(Lex(attr \o <<NL>> \o it \o <<NL>> \o r.includes)),
        [ok |-> TRUE, toks |-> <<>>], [ok |-> TRUE, toks |-> <<>>], r.includes, r.reads, FALSE)

(* lines 436-442, r being what include_file returned *)
DoctestWithContent(r, tn) ==
  IF ~r.ok THEN NoExpansion
  ELSE DoctestFormat(AttrOpen(FALSE) \o r.out \o AttrClose, DoctestItem(tn), r)

(* the tail of doctest, lines 430-442; fp is file_path.as_ref().unwrap() *)
doctest_emit(fp, tn, files) ==
  DoctestWithContent(include_file(<<"include_str">>, fp, <<>>, <<>>, files), tn)

----------------
(* Bounds of the inputs *)

MaxArgs == 2

MaxItem == 2

MaxFileLen == 3

MaxParts == 3

(* all sequences of at most n elements of S *)
SeqUpTo(S, n) == UNION {[1..m -> S] : m \in 0..n}

(* the concatenation of a sequence of sequences *)
RECURSIVE Concat(_)
Concat(ss) == IF ss = <<>> THEN <<>> ELSE Head(ss) \o Concat(Tail(ss))

(* Literals, by their printed form *)
StrLit(body) == Lit(<<DQ>> \o body \o <<DQ>>)

RawStrLit(body) == Lit(<<"r", DQ>> \o body \o <<DQ>>)

RawHashStrLit(body) == Lit(<<"r", "#", DQ>> \o body \o <<DQ, "#">>)

ByteStrLit(body) == Lit(<<"b", DQ>> \o body \o <<DQ>>)

RawByteStrLit(body) == Lit(<<"b", "r", DQ>> \o body \o <<DQ>>)

CharLit(body) == Lit(<<SQ>> \o body \o <<SQ>>)

ByteLit(body) == Lit(<<"b", SQ>> \o body \o <<SQ>>)

NumLit(body) == Lit(body)

Literals ==
  {StrLit(<<"a">>), StrLit(<<"a", BS, DQ>>), RawStrLit(<<"a">>), RawHashStrLit(<<"a", DQ>>),
   ByteStrLit(<<"a">>), RawByteStrLit(<<"a">>), CharLit(<<"c">>), CharLit(<<DQ>>),
   ByteLit(<<"c">>), NumLit(<<"1">>)}

Comma == Punct(",")

Bang == Punct("!")

Hash == Punct("#")

(* the files: src/p and /e exist, src/q does not *)
PathP == <<"p">>

PathQ == <<"q">>

PathE == <<"/", "e">>

Paths == {PathP, PathQ, PathE}

FilesWith(content) == [f \in {full_path(PathP), PathE} |-> content]

DefaultFiles == FilesWith(<<"a", DQ, BS>>)

FileChars == {"a", DQ, BS, NL}

MacroCall(name, stream) == <<Ident(name), Bang, Group("paren", stream)>>

(* the arguments of the attribute, one argument (or one stray token) each *)
ArgUnits ==
  {<<l>> : l \in Literals} \cup
  {<<Comma>>, <<Ident("foo")>>, <<Punct("=")>>, <<Group("paren", <<StrLit(<<"a">>)>>)>>,
   MacroCall("include_str", <<StrLit(PathP)>>),
   MacroCall("include_str", <<StrLit(PathP), Comma, StrLit(PathE)>>),
   MacroCall("include_str", <<StrLit(PathQ)>>),
   MacroCall("include_str", <<NumLit(<<"1">>)>>),
   MacroCall("include_str", <<Ident("foo")>>),
   MacroCall("concat", <<StrLit(PathP)>>),
   <<Ident("include_str"), Bang>>,
   <<Ident("include_str"), Bang, StrLit(PathP)>>}

AttrStreams == {Concat(us) : us \in SeqUpTo(ArgUnits, MaxArgs)}

Attribute(stream) == <<Hash, Group("bracket", stream)>>

DocCommentAttr(args) == Attribute(<<Ident("doc_comment"), Group("paren", args)>>)

(* the pieces of an item that hold no group of their own *)
LeafUnits ==
  {<<Ident("S")>>, <<Punct(";")>>, <<Hash>>, <<JointPunct("-"), Punct(">")>>,
   <<RawHashStrLit(<<"a">>), Ident("y")>>}

AttrUnits ==
  {DocCommentAttr(<<StrLit(<<"variant", SP>>), Comma, NumLit(<<"1">>)>>),
   DocCommentAttr(MacroCall("include_str", <<StrLit(PathP)>>)),
   DocCommentAttr(<<Ident("foo")>>),
   Attribute(<<Ident("doc_comment")>>),
   Attribute(<<Ident("inline")>>),
   Attribute(<<Ident("derive"), Group("paren", <<Ident("Debug")>>)>>),
   Attribute(<<Ident("doc"), Punct("="), StrLit(<<"x">>)>>),
   <<JointPunct("#"), Bang, Group("bracket", <<Ident("doc_comment"), Group("paren", <<StrLit(<<"a">>)>>)>>)>>}

Delims == {"paren", "brace", "bracket", "none"}

GroupUnits1 ==
  {<<Group(d, u)>> : d \in Delims,
     u \in {<<>>,
            DocCommentAttr(<<StrLit(<<"b">>)>>) \o <<Ident("A"), Comma>>,
            Attribute(<<Ident("inline")>>) \o <<Ident("A")>>}}

GroupUnits2 ==
  {<<Group("brace", <<Ident("B")>> \o g)>> :
     g \in {<<Group(d, DocCommentAttr(<<StrLit(<<"c">>)>>) \o <<Ident("u8")>>)>> :
              d \in {"paren", "none"}}}

ItemUnits == LeafUnits \cup AttrUnits \cup GroupUnits1 \cup GroupUnits2

ItemStreams == {Concat(us) : us \in SeqUpTo(ItemUnits, MaxItem)}

(* the items doc_comment is called on: outer ones, and inner ones (a first *)
(* identifier with an empty name or the dummy span)                        *)
DocItemUnits ==
  {<<Ident("S")>>, <<Punct(";")>>, <<DummyIdent(<<>>)>>, <<DummyIdent(<<"m">>)>>,
   DocCommentAttr(<<StrLit(<<"variant", SP>>), Comma, NumLit(<<"1">>)>>),
   DocCommentAttr(MacroCall("include_str", <<StrLit(PathE)>>)),
   Attribute(<<Ident("inline")>>),
   <<Ident("T"), Group("brace", DocCommentAttr(<<StrLit(<<"b">>)>>) \o <<Ident("A"), Comma>>),
     Punct(";")>>,
   <<Group("paren", <<Ident("B"),
       Group("brace", DocCommentAttr(MacroCall("include_str", <<StrLit(PathP)>>)))>>)>>,
   <<Group("none", <<>>)>>}

DocItemStreams == {Concat(us) : us \in SeqUpTo(DocItemUnits, MaxItem)}

(* the attribute arguments doc_comment is called with *)
DocAttrs ==
  {<<StrLit(<<"enum", SP>>), Comma, StrLit(<<"time", "!">>)>>,
   MacroCall("include_str", <<StrLit(PathP)>>),
   <<Ident("foo")>>}

DoctestTokens ==
  {StrLit(PathP), StrLit(PathQ), NumLit(<<"1">>), RawStrLit(PathP), Comma,
   Ident("another"), Bang, Group("paren", <<>>)}

----------------------------------------------------------------------------
(* The state: the call being made (op), its arguments, and what it returned *)

Idle == Ret(<<>>, <<>>, <<>>)

(* where a call ends: it returned, or it panicked *)
After(r) == IF r.ok THEN "done" ELSE "panic"

Args(o, a, it, inner, p, files, ps, r) ==
  /\ op = o /\ attrs = a /\ item = it /\ is_inner = inner /\ path = p /\ fs = files
  /\ parts = ps /\ file_path = None /\ test_name = None /\ ret = r

Init ==
  \/ \E p \in Paths, c \in SeqUpTo(FileChars, MaxFileLen),
        before \in {Idle, Ret(<<>>, IncludeDecl(<<"include_str">>, PathE), <<PathE>>)} :
       /\ pc = "call"
       /\ Args("include_file", <<>>, <<>>, FALSE, p, FilesWith(c), <<>>, before)
  \/ \E a \in AttrStreams, inner \in BOOLEAN :
       /\ pc = "call"
       /\ Args("parse_attr", a, <<>>, inner, <<>>, DefaultFiles, <<>>, Idle)
  \/ \E it \in ItemStreams :
       /\ pc = "call"
       /\ Args("parse_item", <<>>, it, FALSE, <<>>, DefaultFiles, <<>>, Idle)
  \/ \E a \in DocAttrs, it \in DocItemStreams :
       /\ pc = "call"
       /\ Args("doc_comment", a, it, FALSE, <<>>, DefaultFiles, <<>>, Idle)
  \/ \E it \in SeqUpTo(DoctestTokens, MaxParts) :
       /\ pc = "scan"
       /\ Args("doctest", <<>>, it, FALSE, <<>>, DefaultFiles, it, Idle)

IncludeFile ==
  /\ op = "include_file" /\ pc = "call"
  /\ ret' = include_file(<<"include_str">>, path, ret.includes, ret.reads, fs)
  /\ pc' = After(ret')
  /\ UNCHANGED <<op, attrs, item, is_inner, path, fs, parts, file_path, test_name>>

ParseAttr ==
  /\ op = "parse_attr" /\ pc = "call"
  /\ ret' = parse_attr(attrs, ret.includes, ret.reads, is_inner, fs)
  /\ pc' = After(ret')
  /\ UNCHANGED <<op, attrs, item, is_inner, path, fs, parts, file_path, test_name>>

ParseItem ==
  /\ op = "parse_item" /\ pc = "call"
  /\ ret' = parse_item(item, ret.includes, ret.reads, fs)
  /\ pc' = After(ret')
  /\ UNCHANGED <<op, attrs, item, is_inner, path, fs, parts, file_path, test_name>>

DocComment ==
  /\ op = "doc_comment" /\ pc = "call"
  /\ ret' = doc_comment(attrs, item, fs)
  /\ is_inner' = check_if_is_inner(item)
  /\ pc' = After(ret')
  /\ UNCHANGED <<op, attrs, item, path, fs, parts, file_path, test_name>>

(* one turn of the loop of doctest: parts.next() is Some(token) *)
DoctestScan ==
  /\ op = "doctest" /\ pc = "scan" /\ parts # <<>>
  /\ LET r == doctest_scan(Head(parts), file_path, test_name) IN
       /\ file_path' = r.fp
       /\ test_name' = r.tn
       /\ pc' = IF r.ok THEN "scan" ELSE "panic"
  /\ parts' = Tail(parts)
  /\ UNCHANGED <<op, attrs, item, is_inner, path, fs, ret>>

(* parts.next() is None: the loop ends, lines 427-429 check the parameters *)
DoctestCheck ==
  /\ op = "doctest" /\ pc = "scan" /\ parts = <<>>
  /\ pc' = IF doctest_has_params(file_path, test_name) THEN "emit" ELSE "panic"
  /\ UNCHANGED <<op, attrs, item, is_inner, path, fs, parts, file_path, test_name, ret>>

(* lines 430-442; unwrap() of a file_path that is None panics *)
DoctestEmit ==
  /\ op = "doctest" /\ pc = "emit"
  /\ IF file_path = None
       THEN pc' = "unwrap_none" /\ ret' = ret
       ELSE ret' = doctest_emit(file_path[1], test_name, fs) /\ pc' = After(ret')
  /\ UNCHANGED <<op, attrs, item, is_inner, path, fs, parts, file_path, test_name>>

Next ==
  \/ IncludeFile
  \/ ParseAttr
  \/ ParseItem
  \/ DocComment
  \/ DoctestScan
  \/ DoctestCheck
  \/ DoctestEmit

Spec == Init /\ [][Next]_vars

----------------------------------------------------------------------------
(* Literal kinds, read off the printed form *)

IsNumberPrint(print) == print # <<>> /\ print[1] \in Digits

IsPlainStrPrint(print) == StartsWith(print, DQ)

IsRawStrPrint(print) == StartsWith(print, "r")

(* the text between the quotes of a raw string with h hashes: r, h hashes, quote, text, quote, h hashes *)
RawBody(print, h) == SubSeq(print, h + 3, Len(print) - h - 1)

(* the text of a literal with its prefix (r, b, br), its hashes and its quotes removed *)
LiteralContent(print) ==
  IF IsNumberPrint(print) THEN print
  ELSE IF IsRawStrPrint(print) THEN RawBody(print, CountHashes(print, 2))
  ELSE IF StartsWith(print, "b") /\ Len(print) >= 2 /\ print[2] = "r"
    THEN RawBody(Tail(print), CountHashes(print, 3))
  ELSE IF StartsWith(print, "b") THEN Inner(print, 2)
  ELSE Inner(print, 1)

(* the text parse_attr put between #[doc = " and "] *)
Inserted(out, inner) == SubSeq(out, Len(AttrOpen(inner)) + 1, Len(out) - Len(AttrClose))

(* what an argument contributes according to C1: a string literal its text, *)
(* any other literal its printed form, a comma nothing                       *)
ClaimedText(t) ==
  IF t.k # "lit" THEN <<>>
  ELSE IF IsPlainStrPrint(t.print) \/ IsRawStrPrint(t.print) THEN LiteralContent(t.print)
  ELSE t.print

ClaimedDoc(ts) == Concat([n \in 1..Len(ts) |-> ClaimedText(ts[n])])

(* an argument list of string literals, numbers and commas *)
StringsNumbersCommas(ts) ==
  \A n \in 1..Len(ts) :
    \/ ts[n].k = "punct" /\ ts[n].ch = ","
    \/ ts[n].k = "lit" /\ (IsPlainStrPrint(ts[n].print) \/ IsRawStrPrint(ts[n].print)
                            \/ IsNumberPrint(ts[n].print))

(* C1: for an argument list of string literals, numbers and commas, parse_attr *)
(* returns #[doc = "T"] (#![doc = "T"] when is_inner) where T concatenates,    *)
(* left to right, the text of each string literal without its quotes and the   *)
(* printed form of each number; commas add nothing.                            *)
C1_ParseAttrConcatenatesContents ==
  (op = "parse_attr" /\ pc # "call" /\ StringsNumbersCommas(attrs)) =>
    (ret.ok /\ ret.out = AttrOpen(is_inner) \o ClaimedDoc(attrs) \o AttrClose)

(* C9: for one literal of any kind, the text parse_attr inserts is the literal's *)
(* content with prefix and delimiters removed, and it holds no unescaped double  *)
(* quote (no quote that would close the string of the doc attribute).            *)
C9_InsertedTextIsLiteralContent ==
  (op = "parse_attr" /\ pc # "call" /\ Len(attrs) = 1 /\ attrs[1].k = "lit") =>
    /\ ret.ok
    /\ Inserted(ret.out, is_inner) = LiteralContent(attrs[1].print)
    /\ ScanStr(Inserted(ret.out, is_inner), 1) = 0

----------------------------------------------------------------------------
(* the string-literal escapes the compiler undoes: \\ and \" *)
RECURSIVE Unescape(_)
Unescape(t) ==
  IF t = <<>> THEN <<>>
  ELSE IF Head(t) = BS /\ Len(t) >= 2 THEN <<t[2]>> \o Unescape(Tail(Tail(t)))
  ELSE <<Head(t)>> \o Unescape(Tail(t))

(* one pass over s: a backslash becomes two, a quote becomes backslash quote *)
EscapedChar(c) == IF c = BS THEN <<BS, BS>> ELSE IF c = DQ THEN <<BS, DQ>> ELSE <<c>>

EscapedOnce(s) == Concat([n \in 1..Len(s) |-> EscapedChar(s[n])])

FileContent == fs[full_path(path)]

(* C8: what include_file returns is the file content with every backslash     *)
(* doubled and every double quote preceded by one backslash (the backslashes   *)
(* added before quotes are not doubled); it holds no unescaped double quote,   *)
(* and undoing the escapes gives the file content back.                        *)
C8_EscapingIsFaithful ==
  (op = "include_file" /\ pc = "done") =>
    /\ ret.out = EscapedOnce(FileContent)
    /\ ScanStr(ret.out, 1) = 0
    /\ Unescape(ret.out) = FileContent

C8_Witness ==
  /\ op = "include_file" /\ pc = "done"
  /\ \E n \in 1..Len(FileContent) : FileContent[n] = DQ
  /\ \E n \in 1..Len(FileContent) : FileContent[n] = BS

----------------------------------------------------------------------------
(* the tokens of an include_str! group are string literals and commas *)
WellFormedIncludeGroup(stream) ==
  \A n \in 1..Len(stream) :
    \/ stream[n].k = "punct" /\ stream[n].ch = ","
    \/ stream[n].k = "lit" /\ IsPlainStrPrint(stream[n].print)

(* ts[i..] is made of literals, commas and include_str!(string literals, commas) *)
RECURSIVE WellFormedArgs(_, _)
WellFormedArgs(ts, i) ==
  IF i > Len(ts) THEN TRUE
  ELSE IF ts[i].k = "lit" THEN WellFormedArgs(ts, i + 1)
  ELSE IF ts[i].k = "punct" THEN ts[i].ch = "," /\ WellFormedArgs(ts, i + 1)
  ELSE IF ts[i].k = "ident" THEN
    /\ i + 2 <= Len(ts)
    /\ ts[i].name = <<"include_str">>
    /\ ts[i + 1].k = "punct" /\ ts[i + 1].ch = "!"
    /\ ts[i + 2].k = "group" /\ WellFormedIncludeGroup(ts[i + 2].stream)
    /\ WellFormedArgs(ts, i + 3)
  ELSE FALSE

(* C5: arguments that are not literals, commas and include_str!(..) calls on  *)
(* string literals abort parse_attr, and doc_comment with it: no doc attribute *)
(* and no expansion is returned.                                               *)
C5_MalformedArgumentsAbort ==
  (op \in {"parse_attr", "doc_comment"} /\ pc # "call" /\ ~WellFormedArgs(attrs, 1)) =>
    (pc = "panic" /\ ret = IF op = "parse_attr" THEN Abort ELSE NoExpansion)

C5_Witness ==
  /\ op = "parse_attr" /\ pc = "panic"
  /\ \E n \in 1..Len(attrs) : attrs[n].k = "ident" /\ attrs[n].name = <<"concat">>
  /\ \A n \in 1..Len(attrs) : attrs[n].k = "ident" => attrs[n].name = <<"concat">>
  /\ \A n \in 1..Len(attrs) : attrs[n].k = "group" => WellFormedIncludeGroup(attrs[n].stream)

----------------------------------------------------------------------------
(* some identifier of ts, at any depth, is doc_comment *)
RECURSIVE MentionsDocComment(_)
MentionsDocComment(ts) ==
  \E n \in 1..Len(ts) :
    \/ ts[n].k = "ident" /\ ts[n].name = <<"doc_comment">>
    \/ ts[n].k = "group" /\ MentionsDocComment(ts[n].stream)

(* the token stream the text that parse_item returned lexes to *)
Emitted(r) == from_str(r.out)

(* C3: an item that holds no doc_comment attribute goes through parse_item     *)
(* unchanged: no abort, and the text returned lexes to the item's own tokens,  *)
(* in the same order and the same group nesting (an attribute such as          *)
(* #[inline] is one # followed by its bracket group).                          *)
C3_OtherTokensUnchanged ==
  (op = "parse_item" /\ pc # "call" /\ ~MentionsDocComment(item)) =>
    (ret.ok /\ Emitted(ret) = [ok |-> TRUE, toks |-> Flatten(item)])

----------------------------------------------------------------------------
(* ts[i], ts[i + 1] is an attribute of the form #[doc_comment(args)] *)
IsDocCommentAttrAt(ts, i) ==
  /\ i + 1 <= Len(ts)
  /\ ts[i].k = "punct" /\ ts[i].ch = "#"
  /\ ts[i + 1].k = "group" /\ ts[i + 1].delim = "bracket"
  /\ Len(ts[i + 1].stream) = 2
  /\ IsDocCommentIdent(ts[i + 1].stream)
  /\ ts[i + 1].stream[2].k = "group"

(* #[doc = "<concatenated args>"] for the attribute at ts[i], as one token that *)
(* prints as that text, alone in a group without delimiters: parse_item copies  *)
(* such a group to its output behind one blank                                  *)
DocAttrInPlace(ts, i, files) ==
  Group("none", <<Lit(parse_attr(ts[i + 1].stream[2].stream, <<>>, <<>>, FALSE, files).out)>>)

(* ts[i..] with every #[doc_comment(args)], at any depth, replaced in place by *)
(* its #[doc = "..."]                                                          *)
RECURSIVE Documented(_, _, _)
Documented(ts, i, files) ==
  IF i > Len(ts) THEN <<>>
  ELSE IF IsDocCommentAttrAt(ts, i) THEN
    <<DocAttrInPlace(ts, i, files)>> \o Documented(ts, i + 2, files)
  ELSE IF ts[i].k = "group" THEN
    <<Group(ts[i].delim, Documented(ts[i].stream, 1, files))>> \o Documented(ts, i + 1, files)
  ELSE <<ts[i]>> \o Documented(ts, i + 1, files)

(* number of attributes #[doc_comment(args)] in ts, at any depth *)
RECURSIVE CountDocCommentAttrs(_)
CountDocCommentAttrs(ts) ==
  IF ts = <<>> THEN 0
  ELSE (IF IsDocCommentAttrAt(ts, 1) THEN 1 ELSE 0)
       + (IF Head(ts).k = "group" THEN CountDocCommentAttrs(Head(ts).stream) ELSE 0)
       + CountDocCommentAttrs(Tail(ts))

(* the tokens n..n+3 are # [ name ( *)
IsAttrCallAt(toks, n, name) ==
  /\ n + 3 <= Len(toks)
  /\ toks[n].k = "punct" /\ toks[n].ch = "#"
  /\ toks[n + 1] = FOpen("bracket")
  /\ toks[n + 2] = FIdent(<<name>>)
  /\ toks[n + 3].k = "open"

(* the tokens n..n+3 are # [ doc = *)
IsDocAttrAt(toks, n) ==
  /\ n + 3 <= Len(toks)
  /\ toks[n].k = "punct" /\ toks[n].ch = "#"
  /\ toks[n + 1] = FOpen("bracket")
  /\ toks[n + 2] = FIdent(<<"doc">>)
  /\ toks[n + 3].k = "punct" /\ toks[n + 3].ch = "="

(* ts[i..] holds, at any depth, no # other than those of #[doc_comment(args)],  *)
(* no group without delimiters, no punctuation joined to the next, no literal  *)
(* that ends with # and no identifier with an empty name                       *)
RECURSIVE OnlyDocCommentAttrs(_, _)
OnlyDocCommentAttrs(ts, i) ==
  IF i > Len(ts) THEN TRUE
  ELSE IF IsDocCommentAttrAt(ts, i) THEN OnlyDocCommentAttrs(ts, i + 2)
  ELSE IF ts[i].k = "group" THEN
    /\ ts[i].delim # "none"
    /\ OnlyDocCommentAttrs(ts[i].stream, 1)
    /\ OnlyDocCommentAttrs(ts, i + 1)
  ELSE IF ts[i].k = "punct" THEN
    ts[i].ch # "#" /\ ~ts[i].joint /\ OnlyDocCommentAttrs(ts, i + 1)
  ELSE IF ts[i].k = "lit" THEN
    ~EndsWith(ts[i].print, "#") /\ OnlyDocCommentAttrs(ts, i + 1)
  ELSE ts[i].name # <<>> /\ OnlyDocCommentAttrs(ts, i + 1)

(* the tokens of ts[i..], those of every #[doc_comment(args)] replaced by the *)
(* tokens of #[doc = "<concatenated args>"]                                   *)
RECURSIVE DocumentedTokens(_, _, _)
DocumentedTokens(ts, i, files) ==
  IF i > Len(ts) THEN <<>>
  ELSE IF IsDocCommentAttrAt(ts, i) THEN
    from_str(parse_attr(ts[i + 1].stream[2].stream, <<>>, <<>>, FALSE, files).out).toks
      \o DocumentedTokens(ts, i + 2, files)
  ELSE IF ts[i].k = "group" THEN
    <<FOpen(ts[i].delim)>> \o DocumentedTokens(ts[i].stream, 1, files)
      \o <<FClose(ts[i].delim)>> \o DocumentedTokens(ts, i + 1, files)
  ELSE Flatten(<<ts[i]>>) \o DocumentedTokens(ts, i + 1, files)

(* the tokens the item of the state's call was rewritten to *)
RewrittenTokens == IF op = "parse_item" THEN Emitted(ret).toks ELSE ret.body

(* toks are the tokens `expected`; no #[doc_comment(..)] is among them, and at *)
(* least `count` doc attributes are; toks are the tokens `direct` when `plain` *)
ReplacedInPlace(toks, expected, count, plain, direct) ==
  /\ toks = expected
  /\ \A n \in 1..Len(toks) : ~IsAttrCallAt(toks, n, "doc_comment")
  /\ Cardinality({n \in 1..Len(toks) : IsDocAttrAt(toks, n)}) >= count
  /\ plain => toks = direct

(* C2: in the outer case, every attribute #[doc_comment(args)] of the item, at *)
(* any depth, is replaced in the output by one #[doc = "<concatenated args>"]  *)
(* at the same position, and no #[doc_comment(..)] is left: the output is what *)
(* parse_item gives for the item with the doc attributes already in place,     *)
(* and, for an item whose other tokens parse_item copies unchanged, it is the  *)
(* item's own tokens with each attribute replaced.                             *)
C2_NestedDocCommentsReplaced ==
  ((op = "parse_item" \/ (op = "doc_comment" /\ ~is_inner)) /\ pc = "done") =>
    ReplacedInPlace(RewrittenTokens,
                    from_str(parse_item(Documented(item, 1, fs), <<>>, <<>>, fs).out).toks,
                    CountDocCommentAttrs(item),
                    OnlyDocCommentAttrs(item, 1),
                    DocumentedTokens(item, 1, fs))

(* a doc_comment attribute two groups deep was rewritten *)
C2_Witness ==
  /\ op = "parse_item" /\ pc = "done"
  /\ \E n \in 1..Len(item) :
       /\ item[n].k = "group"
       /\ \E m \in 1..Len(item[n].stream) :
            /\ item[n].stream[m].k = "group"
            /\ CountDocCommentAttrs(item[n].stream[m].stream) = 1
  /\ CountDocCommentAttrs(item) = 2
  /\ OnlyDocCommentAttrs(item, 1)

----------------------------------------------------------------------------
(* the arguments of doctest as the claim reads them: P, or P followed by a *)
(* comma and N, P being a literal and N an identifier                      *)
IsDoctestCall(ts) ==
  /\ Len(ts) \in {1, 3}
  /\ ts[1].k = "lit"
  /\ Len(ts) = 3 => (ts[2] = Comma /\ ts[3].k = "ident")

(* the item `extern {}`, or `mod N {}` when a name is given *)
EquivalentItem(ts) ==
  IF Len(ts) = 3 THEN <<Ident("mod"), ts[3], Group("brace", <<>>)>>
  ELSE <<Ident("extern"), Group("brace", <<>>)>>

(* r, what doctest returned (done tells whether it returned), against d, what *)
(* doc_comment returned                                                       *)
SameExpansion(done, r, d) ==
  /\ done = d.ok
  /\ done => (r.toks = d.toks /\ r.includes = d.includes /\ r.reads = d.reads)

(* C4: doctest!(P) gives the tokens of #[doc_comment(include_str!(P))] applied *)
(* to `extern {}`, doctest!(P, N) those of the same attribute applied to       *)
(* `mod N {}`, with the same include constant; one aborts exactly when the     *)
(* other does.                                                                 *)
C4_DoctestIsDocCommentOfInclude ==
  (op = "doctest" /\ pc \notin {"scan", "emit"} /\ IsDoctestCall(item)) =>
    SameExpansion(pc = "done", ret,
                  doc_comment(MacroCall("include_str", <<item[1]>>), EquivalentItem(item), fs))

C4_Witness ==
  /\ op = "doctest" /\ pc = "done" /\ Len(item) = 3 /\ test_name = Some(<<"another">>)
  /\ \E n \in 1..Len(ret.toks) : ret.toks[n] = FIdent(<<"another">>)

----------------------------------------------------------------------------
(* the parameters doctest accepts: literals, commas and identifiers only; the *)
(* literals are string literals; one string literal, and it comes before      *)
(* every identifier                                                           *)
ValidParams(ts) ==
  /\ \A n \in 1..Len(ts) :
       \/ ts[n].k = "lit" /\ IsPlainStrPrint(ts[n].print)
       \/ ts[n].k = "punct" /\ ts[n].ch = ","
       \/ ts[n].k = "ident"
  /\ Cardinality({n \in 1..Len(ts) : ts[n].k = "lit"}) = 1
  /\ \A n \in 1..Len(ts) : ts[n].k = "ident" => \E m \in 1..(n - 1) : ts[m].k = "lit"

(* C6: doctest aborts on an identifier before any string literal, on a literal *)
(* that is not a string literal, on a second string literal, on any token that *)
(* is not a literal, a comma or an identifier, and on no parameter at all: the *)
(* scan is left without abort only for valid parameters, and nothing is        *)
(* returned otherwise.  test_name is set only if file_path is, and             *)
(* file_path.as_ref().unwrap() is never reached with file_path unset.          *)
C6_DoctestValidatesParameters ==
  op = "doctest" =>
    /\ pc \in {"emit", "done"} => ValidParams(item)
    /\ (pc # "scan" /\ ~ValidParams(item)) => (pc = "panic" /\ ret = Idle)
    /\ test_name # None => file_path # None
    /\ pc = "emit" => file_path # None
    /\ pc # "unwrap_none"

(* an identifier came before the string literal, and doctest aborted *)
C6_Witness ==
  /\ op = "doctest" /\ pc = "panic" /\ Len(item) = 2
  /\ item[1].k = "ident" /\ item[2].k = "lit" /\ IsPlainStrPrint(item[2].print)
  /\ file_path = None /\ test_name = None

----------------------------------------------------------------------------
(* the paths of the string literals of an include_str!(..) group, in order *)
RECURSIVE GroupPaths(_)
GroupPaths(stream) ==
  IF stream = <<>> THEN <<>>
  ELSE (IF Head(stream).k = "lit" THEN <<Inner(Head(stream).print, 1)>> ELSE <<>>)
       \o GroupPaths(Tail(stream))

(* the paths of the string literals found in the include_str! calls of an *)
(* argument list, in order                                                *)
RECURSIVE IncludePaths(_, _)
IncludePaths(ts, i) ==
  IF i > Len(ts) THEN <<>>
  ELSE IF i + 2 <= Len(ts) /\ ts[i].k = "ident" /\ IsBang(ts[i + 1]) /\ ts[i + 2].k = "group"
    THEN GroupPaths(ts[i + 2].stream) \o IncludePaths(ts, i + 3)
  ELSE IncludePaths(ts, i + 1)

(* the same for the attributes #[name(args)] of an item, at any depth *)
RECURSIVE ItemIncludePaths(_, _)
ItemIncludePaths(ts, i) ==
  IF i > Len(ts) THEN <<>>
  ELSE IF /\ i + 1 <= Len(ts) /\ ts[i].k = "punct" /\ ts[i].ch = "#"
          /\ ts[i + 1].k = "group" /\ ts[i + 1].delim = "bracket"
          /\ Len(ts[i + 1].stream) >= 2 /\ ts[i + 1].stream[2].k = "group"
    THEN IncludePaths(ts[i + 1].stream[2].stream, 1) \o ItemIncludePaths(ts, i + 2)
  ELSE IF ts[i].k = "group"
    THEN ItemIncludePaths(ts[i].stream, 1) \o ItemIncludePaths(ts, i + 1)
  ELSE ItemIncludePaths(ts, i + 1)

(* one declaration const _: &'static str = include_str!("<path>"); per path *)
Declarations(ps) == Concat([n \in 1..Len(ps) |-> IncludeDecl(<<"include_str">>, ps[n])])

(* the string literals in the include_str! calls the state's call goes through *)
ExpectedReads ==
  CASE op = "include_file" -> <<PathE, path>>
    [] op = "parse_attr" -> IncludePaths(attrs, 1)
    [] op = "parse_item" -> ItemIncludePaths(item, 1)
    [] op = "doc_comment" ->
         IncludePaths(attrs, 1) \o (IF is_inner THEN <<>> ELSE ItemIncludePaths(item, 1))
    [] op = "doctest" -> file_path

(* toks starts with the tokens a and ends with the tokens inc *)
AttributeFirstIncludesLast(toks, a, inc) ==
  /\ Len(toks) >= Len(a) + Len(inc)
  /\ SubSeq(toks, 1, Len(a)) = a
  /\ SubSeq(toks, Len(toks) - Len(inc) + 1, Len(toks)) = inc
  /\ Cardinality({n \in 1..Len(toks) : toks[n] = FIdent(<<"const">>)}) = Len(ExpectedReads)

(* C7: the includes buffer holds one declaration per file read, in the order   *)
(* the files were read; the files read are the string literals of the          *)
(* include_str! calls, in order; what doc_comment and doctest return is the    *)
(* doc attribute first and the include constants last, as many constants as    *)
(* string literals in include_str! calls.                                      *)
C7_OneConstantPerIncludeInOrder ==
  ret.ok =>
    /\ ret.includes = Declarations(ret.reads)
    /\ pc = "done" => ret.reads = (IF op = "include_file" /\ Len(ret.reads) = 1
                                     THEN <<path>> ELSE ExpectedReads)
    /\ (op \in {"doc_comment", "doctest"} /\ pc = "done") =>
         AttributeFirstIncludesLast(
           ret.toks,
           IF op = "doc_comment"
             THEN from_str(parse_attr(attrs, <<>>, <<>>, is_inner, fs).out).toks
             ELSE from_str(AttrOpen(FALSE) \o Escape(fs[full_path(file_path[1])]) \o AttrClose).toks,
           from_str(Declarations(ExpectedReads)).toks)

(* one file inlined by the attribute and one by a nested attribute *)
C7_Witness ==
  /\ op = "doc_comment" /\ pc = "done" /\ ~is_inner
  /\ ret.reads = <<PathP, PathE>>
  /\ IncludePaths(attrs, 1) = <<PathP>>

----------------------------------------------------------------------------
(* the item's first token is an identifier with an empty name or the dummy span *)
FirstTokenIsInnerMark(ts) ==
  ts # <<>> /\ ts[1].k = "ident" /\ (ts[1].name = <<>> \/ ts[1].span = "dummy")

GroupIndices(ts) == {n \in 1..Len(ts) : ts[n].k = "group"}

(* the tokens inside the first group of ts, none if ts holds no group *)
FirstGroupTokens(ts) ==
  IF GroupIndices(ts) = {} THEN <<>>
  ELSE Flatten(ts[CHOOSE n \in GroupIndices(ts) : \A m \in GroupIndices(ts) : n <= m].stream)

(* toks are #![doc = ".."] as parse_attr gives it, then inside, then the constants *)
InnerExpansion(toks, a, inside, inc) ==
  /\ toks = a \o inside \o inc
  /\ toks[1].k = "punct" /\ toks[1].ch = "#"
  /\ toks[2].k = "punct" /\ toks[2].ch = "!"
  /\ toks[3] = FOpen("bracket")

(* C10: when the item's first token is an identifier with an empty name or the *)
(* dummy span, doc_comment returns #![doc = ".."], the tokens inside the first *)
(* group of the item as they are (none if the item holds no group), and the    *)
(* include constants; the rest of the item is dropped.  Otherwise the          *)
(* attribute is #[doc = ".."], without `!`.                                    *)
C10_InnerAttributeCase ==
  (op = "doc_comment" /\ pc = "done") =>
    IF FirstTokenIsInnerMark(item)
      THEN InnerExpansion(ret.toks,
                          from_str(parse_attr(attrs, <<>>, <<>>, TRUE, fs).out).toks,
                          FirstGroupTokens(item),
                          from_str(Declarations(IncludePaths(attrs, 1))).toks)
      ELSE /\ ret.toks[1].k = "punct" /\ ret.toks[1].ch = "#"
           /\ ret.toks[2] = FOpen("bracket")

(* an inner item with tokens before and after its first group, the group *)
(* holding a doc_comment attribute that is passed through                *)
C10_Witness ==
  /\ op = "doc_comment" /\ pc = "done" /\ is_inner
  /\ Len(item) = 4 /\ item[3].k = "group" /\ CountDocCommentAttrs(item[3].stream) = 1
  /\ \E n \in 1..Len(ret.toks) : IsAttrCallAt(ret.toks, n, "doc_comment")

====
